---- MODULE Spec2Model ----
(***************************************************************************)
(* Login throttling of authentication-controller.js: the module-level map  *)
(* failedLoginAttempts, the asynchronous handler login() with its single   *)
(* suspension point (await checkLoginCredentials), and the reset callbacks *)
(* it hands to setTimeout.                                                 *)
(*                                                                         *)
(* A login call is two steps of the event loop: the synchronous prefix up  *)
(* to the await (lines 16-34) and the continuation after it (36-58).  Any  *)
(* number of other calls and timer callbacks may run between the two.      *)
(***************************************************************************)
EXTENDS Integers, Sequences, FiniteSets, TLC

\* ---- bounds of the model ------------------------------------------------
MaxSteps == 1      \* the clock is advanced at most this many times
MaxTimers == 2     \* at most this many setTimeout callbacks are pending

\* ---- program constants ---------------------------------------------------
loginAttemptResetTime == 30 * 60 * 1000
\* granularity of the modelled clock, in ms: events are ordered freely
\* within one step, and the clock jumps by one reset time
ClockStep == loginAttemptResetTime

\* ---- the world around the handler -----------------------------------------
Calls == {"r1", "r2"}                   \* concurrently served requests
Emails == {"a@x.com", "nobody@x.com"}   \* request.body.email
Passwords == {"secret", "wrong"}        \* request.body.password
Undefined == -1                         \* stands for a key absent from the map
Null == [null |-> TRUE]                 \* stands for the value null
None == -1                              \* "nothing recorded" in the history variables
CheckErrors == {"StorageUnavailable"}   \* rejections of the awaited check

\* the credential store: one registered user
users == [e \in {"a@x.com"} |-> "secret"]

\* the request bodies tried: the valid pair, a wrong password for the
\* registered email, and an email without a record
Requests ==
  {[email |-> "a@x.com", password |-> "secret"],
   [email |-> "a@x.com", password |-> "wrong"],
   [email |-> "nobody@x.com", password |-> "wrong"]}

VARIABLES
  failedLoginAttempts,  \* the map of line 5: email -> count, or Undefined
  timers,               \* pending setTimeout callbacks, in firing order; with
                        \*   each, as history, the number of writes to the map
                        \*   its login call has made itself
  now,                  \* the clock, in ms
  calls,                \* per request: where login() stands, and its locals
  response,             \* what the last completed login() passed on
  watched,              \* history: the email the history variables follow
  streakFails,          \* history: failures of watched since its last success,
                        \*   None once one of them overlapped another call
  streakStart,          \* history: when the first of them was recorded
  firstFail,            \* history: when the first failure of watched since its
                        \*   count was last set to 0 was recorded
  cleanFails            \* history: failures of watched recorded since its count
                        \*   was last set to 0, None once one of them was read
                        \*   before that

vars == <<failedLoginAttempts, timers, now, calls, response,
          watched, streakFails, streakStart, firstFail, cleanFails>>

\* ---- pure pieces of login() ------------------------------------------------

\* line 20: failedLoginAttempts[email] || 0
AttemptsRead(v) == IF v = Undefined THEN 0 ELSE v

\* variant of line 23 that lets the attempt at the limit through
TooManyAttemptsPastLimit(loginAttempts) == loginAttempts > 5

\* line 23: loginAttempts >= 5
TooManyAttempts(loginAttempts) == loginAttempts >= 5

\* variant of line 38 that writes the count back unchanged
FailedWriteStuck(loginAttempts) == loginAttempts

\* variant of line 38 that counts a failure twice
FailedWriteTwice(loginAttempts) == loginAttempts + 2

\* line 38: the value written after a failed check
FailedWrite(loginAttempts) == loginAttempts + 1

\* line 46: the value written after a successful check
SuccessWrite == 0

\* line 50: the value written by the timer callback
TimerWrite == 0

\* the awaited collaborator: the user's profile, or null for an unknown
\* email and for a password that does not match
checkLoginCredentials(store, email, password) ==
  IF email \in DOMAIN store /\ store[email] = password
    THEN [email |-> email]
    ELSE Null

\* ---- helpers ---------------------------------------------------------------
Count(e) == AttemptsRead(failedLoginAttempts[e])
Idle == [pc |-> "idle"]
InFlight(e) == {c \in Calls : calls[c].pc = "await" /\ calls[c].email = e}
\* requests are interchangeable: a new one takes the first free slot
FirstFree(c) == c = "r1" \/ calls["r1"].pc = "await"
Min(a, b) == IF a < b THEN a ELSE b

\* every in-flight call for e notes that the count of e was reset under it
NoteReset(cs, e) ==
  [c \in Calls |-> IF cs[c].pc = "await" /\ cs[c].email = e
                     THEN [cs[c] EXCEPT !.resetSeen = TRUE] ELSE cs[c]]

\* every in-flight call for e notes that a login for e succeeded under it
NoteSuccess(cs, e) ==
  [c \in Calls |-> IF cs[c].pc = "await" /\ cs[c].email = e
                     THEN [cs[c] EXCEPT !.okSeen = TRUE] ELSE cs[c]]

\* every in-flight call for e notes that another call for e overlaps it
NoteOverlap(cs, e) ==
  [c \in Calls |-> IF cs[c].pc = "await" /\ cs[c].email = e
                     THEN [cs[c] EXCEPT !.solo = FALSE] ELSE cs[c]]

\* history kept when the failure of request c is recorded
FailureHistory(c) ==
  IF calls[c].email = watched
    THEN /\ streakFails' = IF calls[c].solo /\ streakFails # None
                             THEN Min(streakFails + 1, 5) ELSE None
         /\ streakStart' = IF ~calls[c].solo \/ streakFails = None THEN None
                             ELSE IF streakFails = 0 THEN now
                             ELSE streakStart
         /\ firstFail' = IF firstFail = None THEN now ELSE firstFail
         /\ cleanFails' = IF calls[c].resetSeen \/ cleanFails = None
                            THEN None ELSE Min(cleanFails + 1, 6)
    ELSE UNCHANGED <<streakFails, streakStart, firstFail, cleanFails>>

\* history kept when a login for e succeeds
SuccessHistory(e) ==
  IF e = watched
    THEN /\ streakFails' = 0
         /\ streakStart' = None
         /\ firstFail' = None
         /\ cleanFails' = 0
    ELSE UNCHANGED <<streakFails, streakStart, firstFail, cleanFails>>

Init ==
  /\ failedLoginAttempts = [e \in Emails |-> Undefined]
  /\ timers = <<>>
  /\ now = 0
  /\ calls = [c \in Calls |-> Idle]
  /\ response = [status |-> "none"]
  /\ watched \in Emails
  /\ streakFails = 0
  /\ streakStart = None
  /\ firstFail = None
  /\ cleanFails = 0

\* variant of the lockout branch that counts the rejected attempt
LoginLockedCounted(e, p) ==
  /\ LET loginAttempts == AttemptsRead(failedLoginAttempts[e]) IN
       /\ TooManyAttempts(loginAttempts)
       /\ response' = [status |-> "FORBIDDEN", email |-> e,
                       loginAttempts |-> loginAttempts,
                       checked |-> FALSE]
       /\ failedLoginAttempts' =
            [failedLoginAttempts EXCEPT ![e] = loginAttempts + 1]
  /\ UNCHANGED <<timers, now, calls,
                 watched, streakFails, streakStart, firstFail, cleanFails>>

\* lines 16-28: the count read is at the limit; the handler throws FORBIDDEN
\* before the await and the catch hands it to next()
LoginLocked(e, p) ==
  /\ LET loginAttempts == AttemptsRead(failedLoginAttempts[e]) IN
       /\ TooManyAttempts(loginAttempts)
       /\ response' = [status |-> "FORBIDDEN", email |-> e,
                       loginAttempts |-> loginAttempts,
                       checked |-> FALSE]
  /\ UNCHANGED <<failedLoginAttempts, timers, now, calls,
                 watched, streakFails, streakStart, firstFail, cleanFails>>

\* lines 16-34: the count read is below the limit; the handler calls
\* checkLoginCredentials and suspends
LoginAwait(c, e, p) ==
  /\ calls[c].pc = "idle"
  /\ FirstFree(c)
  /\ LET loginAttempts == AttemptsRead(failedLoginAttempts[e]) IN
       /\ ~TooManyAttempts(loginAttempts)
       /\ calls' = [NoteOverlap(calls, e) EXCEPT ![c] =
                      [pc |-> "await", email |-> e, password |-> p,
                       loginAttempts |-> loginAttempts,
                       solo |-> (InFlight(e) = {}), resetSeen |-> FALSE,
                       okSeen |-> FALSE]]
  /\ UNCHANGED <<failedLoginAttempts, timers, now, response,
                 watched, streakFails, streakStart, firstFail, cleanFails>>

\* variant of the failure branch that counts only for a key already in the map
LoginFailedKnownOnly(c) ==
  /\ calls[c].pc = "await"
  /\ LET e == calls[c].email
         loginAttempts == calls[c].loginAttempts IN
       /\ checkLoginCredentials(users, e, calls[c].password) = Null
       /\ failedLoginAttempts' =
            IF failedLoginAttempts[e] = Undefined THEN failedLoginAttempts
            ELSE [failedLoginAttempts EXCEPT ![e] = FailedWrite(loginAttempts)]
       /\ response' = [status |-> "INVALID_CREDENTIALS", email |-> e,
                       loginAttempts |-> calls[c].loginAttempts,
                       checked |-> TRUE]
       /\ FailureHistory(c)
  /\ calls' = [calls EXCEPT ![c] = Idle]
  /\ UNCHANGED <<timers, now, watched>>

\* lines 36-43 and 55-57: the check resolved to null
LoginFailed(c) ==
  /\ calls[c].pc = "await"
  /\ LET e == calls[c].email
         loginAttempts == calls[c].loginAttempts IN
       /\ checkLoginCredentials(users, e, calls[c].password) = Null
       /\ failedLoginAttempts' =
            [failedLoginAttempts EXCEPT ![e] = FailedWrite(loginAttempts)]
       /\ response' = [status |-> "INVALID_CREDENTIALS", email |-> e,
                       loginAttempts |-> calls[c].loginAttempts,
                       checked |-> TRUE]
       /\ FailureHistory(c)
  /\ calls' = [calls EXCEPT ![c] = Idle]
  /\ UNCHANGED <<timers, now, watched>>

\* variant of the success branch without line 46: only the timer resets
LoginSucceededNoReset(c) ==
  /\ calls[c].pc = "await"
  /\ Len(timers) < MaxTimers
  /\ LET e == calls[c].email IN
       /\ checkLoginCredentials(users, e, calls[c].password) # Null
       /\ failedLoginAttempts' = failedLoginAttempts
       /\ timers' = Append(timers, [email |-> e,
                                     due |-> now + loginAttemptResetTime,
                                     writes |-> 0])
       /\ response' = [status |-> "OK", email |-> e,
                       loginAttempts |-> calls[c].loginAttempts,
                       checked |-> TRUE]
       /\ calls' = [NoteSuccess(NoteReset(calls, e), e) EXCEPT ![c] = Idle]
       /\ SuccessHistory(e)
  /\ UNCHANGED <<now, watched>>

\* lines 45-54: the check resolved to a profile
LoginSucceeded(c) ==
  /\ calls[c].pc = "await"
  /\ Len(timers) < MaxTimers
  /\ LET e == calls[c].email IN
       /\ checkLoginCredentials(users, e, calls[c].password) # Null
       /\ failedLoginAttempts' = [failedLoginAttempts EXCEPT ![e] = SuccessWrite]
       /\ timers' = Append(timers, [email |-> e,
                                     due |-> now + loginAttemptResetTime,
                                     writes |-> 1])
       /\ response' = [status |-> "OK", email |-> e,
                       loginAttempts |-> calls[c].loginAttempts,
                       checked |-> TRUE]
       /\ calls' = [NoteSuccess(NoteReset(calls, e), e) EXCEPT ![c] = Idle]
       /\ SuccessHistory(e)
  /\ UNCHANGED <<now, watched>>

\* variant of the catch that counts a check that never completed as a failure
LoginErrorCounted(c, err) ==
  /\ calls[c].pc = "await"
  /\ response' = [status |-> err, email |-> calls[c].email,
                  loginAttempts |-> calls[c].loginAttempts,
                  checked |-> TRUE]
  /\ failedLoginAttempts' =
       [failedLoginAttempts EXCEPT ![calls[c].email] = calls[c].loginAttempts + 1]
  /\ calls' = [calls EXCEPT ![c] = Idle]
  /\ UNCHANGED <<timers, now,
                 watched, streakFails, streakStart, firstFail, cleanFails>>

\* lines 31-34 and 55-57: the awaited check rejected; the catch hands the
\* error to next()
LoginError(c, err) ==
  /\ calls[c].pc = "await"
  /\ response' = [status |-> err, email |-> calls[c].email,
                  loginAttempts |-> calls[c].loginAttempts,
                  checked |-> TRUE]
  /\ calls' = [calls EXCEPT ![c] = Idle]
  /\ UNCHANGED <<failedLoginAttempts, timers, now,
                 watched, streakFails, streakStart, firstFail, cleanFails>>

\* variant of the callback that resets the count of every email
FireTimerClearsAll ==
  /\ timers # <<>>
  /\ Head(timers).due <= now
  /\ LET e == Head(timers).email IN
       /\ failedLoginAttempts' = [x \in Emails |-> TimerWrite]
       /\ calls' = NoteReset(calls, e)
       /\ cleanFails' = IF e = watched THEN 0 ELSE cleanFails
       /\ firstFail' = IF e = watched THEN None ELSE firstFail
  /\ timers' = Tail(timers)
  /\ UNCHANGED <<now, response, watched, streakFails, streakStart>>

\* lines 49-51: the oldest pending callback runs, no earlier than its due time
FireTimer ==
  /\ timers # <<>>
  /\ Head(timers).due <= now
  /\ LET e == Head(timers).email IN
       /\ failedLoginAttempts' = [failedLoginAttempts EXCEPT ![e] = TimerWrite]
       /\ calls' = NoteReset(calls, e)
       /\ cleanFails' = IF e = watched THEN 0 ELSE cleanFails
       /\ firstFail' = IF e = watched THEN None ELSE firstFail
  /\ timers' = Tail(timers)
  /\ UNCHANGED <<now, response, watched, streakFails, streakStart>>

\* time passes
Tick ==
  /\ now < MaxSteps * ClockStep
  /\ now' = now + ClockStep
  /\ UNCHANGED <<failedLoginAttempts, timers, calls, response,
                 watched, streakFails, streakStart, firstFail, cleanFails>>

Next ==
  \/ \E rq \in Requests : LoginLocked(rq.email, rq.password)
  \/ \E c \in Calls, rq \in Requests : LoginAwait(c, rq.email, rq.password)
  \/ \E c \in Calls : LoginFailed(c)
  \/ \E c \in Calls : LoginSucceeded(c)
  \/ \E c \in Calls, err \in CheckErrors : LoginError(c, err)
  \/ FireTimer
  \/ Tick

Spec == Init /\ [][Next]_vars

TypeOK ==
  /\ failedLoginAttempts \in [Emails -> (0..5) \cup {Undefined}]
  /\ now \in 0..(MaxSteps * ClockStep)
  /\ Len(timers) <= MaxTimers

\* ---- what a step did, read off the state before and after it ------------------

CountNext(e) == AttemptsRead(failedLoginAttempts'[e])

\* request c left its await in this step
Completes(c) == calls[c].pc = "await" /\ calls'[c].pc = "idle"

\* a login for e passed the lockout check and called checkLoginCredentials
Proceeds(e) ==
  \E c \in Calls : calls[c].pc = "idle" /\ calls'[c].pc = "await" /\ calls'[c].email = e

\* a login for e was answered FORBIDDEN: the only step that answers without
\* moving a request, the clock or the head of the timer list
Rejected(e) ==
  /\ response'.status = "FORBIDDEN" /\ response'.email = e
  /\ calls' = calls /\ now' = now /\ Len(timers') >= Len(timers)

\* the oldest timer callback ran
TimerFires == timers # <<>> /\ timers' = Tail(timers)

\* what the credentials of request c are to the credential store
Kind(c) ==
  IF calls[c].email \notin DOMAIN users THEN "no record"
  ELSE IF users[calls[c].email] # calls[c].password THEN "wrong password"
  ELSE "valid"

\* request c ran alone: no other login for its email overlapped it and no
\* reset of its email's count happened under it
Quiet(c) == calls[c].solo /\ ~calls[c].resetSeen

\* ---- claims ---------------------------------------------------------------

\* C1: a login is answered FORBIDDEN (LockedOut) exactly when the count it
\* reads is >= 5; a rejected login does not invoke the credential check, and
\* a login that reads a count < 5 proceeds to it.
C1_LockedOutIffAtLimit ==
  [][\A e \in Emails :
       /\ Rejected(e) => /\ Count(e) >= 5
                         /\ response'.loginAttempts = Count(e)
                         /\ ~response'.checked
       /\ Proceeds(e) => Count(e) < 5]_vars

C1_Witness ==
  /\ response.status = "FORBIDDEN"
  /\ response.loginAttempts = 5
  /\ \E c \in Calls : calls[c].pc = "await" /\ calls[c].loginAttempts = 4

\* C2 (as claimed): once 5 logins for an identifier have failed one after the
\* other, with no success in between and within the reset time of the first of
\* them, no further login for it gets past the lockout check.
C2_LockedAfterFiveFailures ==
  [][(streakFails = 5 /\ now < streakStart + loginAttemptResetTime)
       => ~Proceeds(watched)]_vars

\* C3 (as claimed): once the reset time has passed since the first failure of
\* a streak, with no callback left to run, the count reads 0.
C3_CountClearedAfterResetTime ==
  (/\ firstFail # None
   /\ now >= firstFail + loginAttemptResetTime
   /\ \A i \in 1..Len(timers) : timers[i].email # watched)
    => Count(watched) = 0

\* C4 (as claimed): N failed logins counted from 0, none of them spanning a
\* reset, leave the count at N when N <= 5 and at 5 or more otherwise.
C4_NoLostUpdates ==
  (InFlight(watched) = {} /\ cleanFails # None)
    => IF cleanFails <= 5 THEN Count(watched) = cleanFails
                          ELSE Count(watched) >= 5

\* C5: a login with a wrong password for an existing identifier that runs
\* alone and whose check completes is answered INVALID_CREDENTIALS and leaves
\* the count exactly 1 higher.
C5_WrongPasswordCountsOnce ==
  [][\A c \in Calls :
       (/\ Completes(c)
        /\ Kind(c) = "wrong password"
        /\ Quiet(c)
        /\ response'.status \notin CheckErrors)
         => /\ response'.status = "INVALID_CREDENTIALS"
            /\ CountNext(calls[c].email) = Count(calls[c].email) + 1]_vars

C5_Witness ==
  /\ response.status = "INVALID_CREDENTIALS"
  /\ response.email \in DOMAIN users
  /\ response.loginAttempts = 2
  /\ Count(response.email) = 3
  /\ watched = response.email /\ streakFails = 3

\* C6: a login with a valid pair that passed the lockout check and whose
\* check completes is answered OK and leaves the count at 0, whatever it read.
C6_SuccessResetsCount ==
  [][\A c \in Calls :
       (/\ Completes(c)
        /\ Kind(c) = "valid"
        /\ response'.status \notin CheckErrors)
         => /\ response'.status = "OK"
            /\ CountNext(calls[c].email) = 0]_vars

C6_Witness ==
  /\ response.status = "OK"
  /\ response.loginAttempts = 4
  /\ Count(response.email) = 0

\* C7 (as claimed): a timer callback never changes the count of its email.
C7_ResetIsNoOp ==
  [][TimerFires => CountNext(Head(timers).email) = Count(Head(timers).email)]_vars

\* C8: a login answered FORBIDDEN changes neither the map of counts nor the
\* pending timers.
C8_LockedOutTouchesNothing ==
  [][\A e \in Emails :
       Rejected(e) => /\ failedLoginAttempts' = failedLoginAttempts
                      /\ timers' = timers]_vars

C8_Witness ==
  /\ response.status = "FORBIDDEN"
  /\ Count(response.email) = 5
  /\ timers # <<>>

\* C9: a login whose email has no record and a login with a wrong password
\* get the same answer and the same change of the tracker: the answer is
\* INVALID_CREDENTIALS, the count becomes the count read plus 1 (the count
\* before plus 1 when the call ran alone), nothing else changes.
C9_FailuresIndistinguishable ==
  [][\A c \in Calls :
       (/\ Completes(c)
        /\ Kind(c) \in {"no record", "wrong password"}
        /\ response'.status \notin CheckErrors)
         => /\ response' = [status |-> "INVALID_CREDENTIALS",
                            email |-> calls[c].email,
                            loginAttempts |-> calls[c].loginAttempts,
                            checked |-> TRUE]
            /\ failedLoginAttempts' =
                 [failedLoginAttempts EXCEPT ![calls[c].email] =
                    calls[c].loginAttempts + 1]
            /\ Quiet(c) => CountNext(calls[c].email) = Count(calls[c].email) + 1
            /\ timers' = timers]_vars

C9_Witness ==
  /\ response.status = "INVALID_CREDENTIALS"
  /\ response.email \notin DOMAIN users
  /\ response.loginAttempts = 0
  /\ \A e \in Emails : Count(e) = 1

\* C10: a login whose credential check rejects is answered with that error
\* and changes neither the map of counts nor the pending timers.
C10_CheckErrorRecordsNothing ==
  [][\A c \in Calls :
       (Completes(c) /\ response'.status \in CheckErrors)
         => /\ failedLoginAttempts' = failedLoginAttempts
            /\ timers' = timers]_vars

C10_Witness ==
  /\ response.status \in CheckErrors
  /\ response.loginAttempts = 1
  /\ Count(response.email) = 1

\* C11 (as claimed): a login that passed the lockout check and whose check
\* completed causes exactly one write to the map, its timer callback included:
\* a failed call the increment, a successful call the reset to 0, so that a
\* callback that writes belongs to a call that has not written itself.
C11_OneMutationPerCall ==
  [][/\ \A c \in Calls :
          (Completes(c) /\ response'.status \in {"OK", "INVALID_CREDENTIALS"})
            => failedLoginAttempts' =
                 [failedLoginAttempts EXCEPT ![calls[c].email] =
                    IF response'.status = "OK" THEN 0
                    ELSE calls[c].loginAttempts + 1]
     /\ TimerFires => Head(timers).writes + 1 = 1]_vars

\* the callbacks pending for e
TimersOf(e) == {i \in 1..Len(timers) : timers[i].email = e}

\* C12 (as claimed): no identifier ever has two or more callbacks pending.
C12_OneTimerPerIdentifier ==
  \A e \in Emails : Cardinality(TimersOf(e)) <= 1

\* C13 (as claimed): an identifier has a callback pending exactly when its
\* count is greater than 0.
C13_TimerIffCounting ==
  \A e \in Emails : (TimersOf(e) # {}) <=> (Count(e) > 0)

\* C14 (as claimed): a failing login that was in flight while a login for the
\* same identifier succeeded, and that finds the count still at 0 when it
\* resumes, leaves the count at 1 at most.
C14_NoStaleIncrement ==
  [][\A c \in Calls :
       (/\ Completes(c)
        /\ calls[c].okSeen
        /\ Count(calls[c].email) = 0
        /\ response'.status = "INVALID_CREDENTIALS")
         => CountNext(calls[c].email) <= 1]_vars

\* C15 (as claimed): between two resets of an identifier's count, at most 5
\* logins get to the credential check and fail it.
C15_AtMostFiveGuesses ==
  cleanFails # None => cleanFails <= 5

\* C16: the count of every identifier is always an integer from 0 to 5.
C16_CountWithinLimit ==
  \A e \in Emails :
    /\ failedLoginAttempts[e] \in {Undefined} \cup 0..5
    /\ Count(e) \in 0..5

C16_Witness ==
  \E e \in Emails :
    /\ Count(e) = 5
    /\ \E c \in Calls : /\ calls[c].pc = "await"
                        /\ calls[c].email = e
                        /\ calls[c].loginAttempts = 4

\* C17: a login for one identifier, and the callback it scheduled, leave the
\* map entry of every other identifier as it was; the lockout check writes
\* nothing, and a scheduled callback is for the identifier of its call.
C17_IdentifierIsolation ==
  [][/\ \A e \in Emails :
          (Proceeds(e) \/ Rejected(e)) => failedLoginAttempts' = failedLoginAttempts
     /\ \A c \in Calls :
          Completes(c) =>
            /\ \A b \in Emails \ {calls[c].email} :
                 failedLoginAttempts'[b] = failedLoginAttempts[b]
            /\ \/ timers' = timers
               \/ /\ Len(timers') = Len(timers) + 1
                  /\ SubSeq(timers', 1, Len(timers)) = timers
                  /\ timers'[Len(timers')].email = calls[c].email
     /\ TimerFires =>
          \A b \in Emails \ {Head(timers).email} :
            failedLoginAttempts'[b] = failedLoginAttempts[b]]_vars

C17_Witness ==
  /\ response.status = "OK"
  /\ timers = <<>>
  /\ Count("a@x.com") = 0
  /\ Count("nobody@x.com") = 5
====
